---- MODULE Spec2Model ----
(***************************************************************************)
(* Session-multiplexed MCP router of src/src/server.ts (the second, full   *)
(* listing of the file, lines 257-631): the process-wide `transports` map, *)
(* the POST /mcp handler, the GET/DELETE handler, and the callbacks the    *)
(* handler installs on each StreamableHTTPServerTransport.                 *)
(*                                                                         *)
(* The transport and the McpServer are objects of the MCP SDK; the model   *)
(* keeps of them what the router's callbacks observe: the order of the     *)
(* transport's own request checks, the `_initialized` flag, the session    *)
(* identifier and the requests whose tool handler has not yet returned.    *)
(***************************************************************************)
EXTENDS Integers, Sequences, FiniteSets, TLC

\* ------------------------------------------------------------------ bounds
\* Number of transports (session handlers) the process may construct.
MaxTransports == 2

\* Length of the longest expression handed to the calculate tool on its own.
MaxLen == 3

\* ------------------------------------------------------------ value spaces
UUID(n) == "uuid-" \o ToString(n)
\* The part of the UUID space the model draws identifiers from: one value for
\* every transport that can be constructed.
UUIDSpace == {UUID(n) : n \in 1..MaxTransports}

\* req.headers['mcp-session-id'] when the header is not sent (undefined); the
\* empty string is falsy in the same way.
Absent == ""
\* Property names every object literal inherits from Object.prototype; a
\* header may carry any of them as its value.
ObjectPrototypeKeys == {"constructor"}
\* A header value that is neither a UUID nor a name found on Object.prototype.
OtherStrings == {"bogus"}
HeaderValues == {Absent} \cup UUIDSpace \cup ObjectPrototypeKeys \cup OtherStrings

TransportIds == 1..MaxTransports
\* What transports[sessionId] evaluates to when no property is found.
Undefined == 0
\* What transports[sessionId] evaluates to when the property is inherited
\* from Object.prototype: a truthy value that is not a transport.
InheritedMember == -1

\* Correlation ids clients give to requests that may be outstanding together.
CorrIds == {1, 2}

\* ----------------------------------------------------------- request bodies
\* <<fromUnit, toUnit>> handed to the convert tool.
UnitPairs ==
    { <<"celsius", "fahrenheit">>, <<"celsius", "kilometers">>, <<"celsius", "constructor">> }
\* Expressions handed to the calculate tool, as sequences of characters.
Expressions == { <<"2", " ", "+", " ", "2", " ", "*", " ", "3">>, <<"2", "+">> }
NoExpr == << >>

\* Values handed to the convert tool.
Values == {100}

Body(m, i, tool, e, v, f, u) ==
    [method |-> m, id |-> i, tool |-> tool, expression |-> e,
     value |-> v, fromUnit |-> f, toUnit |-> u]

\* Calls that are answered before the handler suspends carry correlation id 1.
InitializeBodies == { Body("initialize", 1, "", NoExpr, 0, "", "") }
CalculateBodies == { Body("tools/call", 1, "calculate", e, 0, "", "") : e \in Expressions }
ConvertBodies ==
    { Body("tools/call", 1, "convert", NoExpr, v, p[1], p[2]) : v \in Values, p \in UnitPairs }
NlToSqlBodies == { Body("tools/call", i, "nl-to-sql", NoExpr, 0, "", "") : i \in CorrIds }
\* A body that is no JSON-RPC message at all (for instance {}).
MalformedBodies == { Body("", 0, "", NoExpr, 0, "", "") }
Bodies == InitializeBodies \cup CalculateBodies \cup ConvertBodies
              \cup NlToSqlBodies \cup MalformedBodies
NoBody == Body("", 0, "", NoExpr, 0, "", "")

\* isInitializeRequest(req.body)
isInitializeRequest(b) == b.method = "initialize"

\* ------------------------------------------------------------ tool handlers
\* Content of a tool result: the text's fixed part, and the number it
\* carries (0 when it carries none).
Content(kind, value) == [kind |-> kind, value |-> value]
NoContent == Content("", 0)

\* A replace that spares the blanks.
SanitizeKeepsBlanks(e) ==
    SelectSeq(e, LAMBDA c : c \in {" ", "-", "(", ")", "*", "+", "/", ".",
                                   "0", "1", "2", "3", "4", "5", "6", "7", "8", "9"})

\* expression.replace(/[^-()*+/0-9.]/g, '')
AllowedChars == {"-", "(", ")", "*", "+", "/", ".",
                 "0", "1", "2", "3", "4", "5", "6", "7", "8", "9"}
Sanitize(e) == SelectSeq(e, LAMBDA c : c \in AllowedChars)

\* eval(...) of a sanitized string, for strings in which "/", "." and "**" do
\* not occur: integer literals, binary and unary + and -, *, parentheses.
\* The result is [ok, val, rest]; ok = FALSE is a thrown SyntaxError or
\* TypeError.  "++" and "--" are single tokens that no literal can follow or
\* precede, and a literal with a leading zero is an error in module code.
Digits == {"0", "1", "2", "3", "4", "5", "6", "7", "8", "9"}
DigitVal(c) ==
    CASE c = "0" -> 0 [] c = "1" -> 1 [] c = "2" -> 2 [] c = "3" -> 3 [] c = "4" -> 4
      [] c = "5" -> 5 [] c = "6" -> 6 [] c = "7" -> 7 [] c = "8" -> 8 [] c = "9" -> 9
Thrown == [ok |-> FALSE, val |-> 0, rest |-> << >>]
Parsed(v, rest) == [ok |-> TRUE, val |-> v, rest |-> rest]

RECURSIVE ParseNumber(_, _)
ParseNumber(acc, s) ==
    IF s # << >> /\ Head(s) \in Digits
    THEN ParseNumber(acc * 10 + DigitVal(Head(s)), Tail(s))
    ELSE Parsed(acc, s)

RECURSIVE ParseExpr(_), ExprTail(_, _), ParseTerm(_), TermTail(_, _), ParseFactor(_)
ParseFactor(s) ==
    IF s = << >> THEN Thrown
    ELSE IF Head(s) \in Digits
    THEN IF Head(s) = "0" /\ Len(s) >= 2 /\ s[2] \in Digits
         THEN Thrown
         ELSE ParseNumber(DigitVal(Head(s)), Tail(s))
    ELSE IF Head(s) = "("
    THEN LET r == ParseExpr(Tail(s))
         IN  IF r.ok /\ r.rest # << >> /\ Head(r.rest) = ")"
             THEN Parsed(r.val, Tail(r.rest))
             ELSE Thrown
    ELSE IF Head(s) \in {"+", "-"}
    THEN IF Len(s) >= 2 /\ s[2] = Head(s)
         THEN Thrown
         ELSE LET r == ParseFactor(Tail(s))
              IN  IF r.ok
                  THEN Parsed(IF Head(s) = "-" THEN 0 - r.val ELSE r.val, r.rest)
                  ELSE Thrown
    ELSE Thrown
TermTail(acc, s) ==
    IF s # << >> /\ Head(s) = "*"
    THEN LET r == ParseFactor(Tail(s))
         IN  IF r.ok THEN TermTail(acc * r.val, r.rest) ELSE Thrown
    ELSE Parsed(acc, s)
ParseTerm(s) ==
    LET r == ParseFactor(s)
    IN  IF r.ok THEN TermTail(r.val, r.rest) ELSE Thrown
ExprTail(acc, s) ==
    IF s # << >> /\ Head(s) \in {"+", "-"}
    THEN IF Len(s) >= 2 /\ s[2] = Head(s)
         THEN Thrown
         ELSE LET r == ParseTerm(Tail(s))
              IN  IF r.ok
                  THEN ExprTail(IF Head(s) = "-" THEN acc - r.val ELSE acc + r.val, r.rest)
                  ELSE Thrown
    ELSE Parsed(acc, s)
ParseExpr(s) ==
    LET r == ParseTerm(s)
    IN  IF r.ok THEN ExprTail(r.val, r.rest) ELSE Thrown

\* eval(s): of the empty string it is undefined and nothing is thrown.
Eval(s) ==
    IF s = << >> THEN Parsed(0, << >>)
    ELSE LET r == ParseExpr(s)
         IN  IF r.ok /\ r.rest = << >> THEN r ELSE Thrown

\* The strings Eval is defined for.
EvalModelled(s) ==
    /\ \A k \in 1..Len(s) : s[k] \notin {"/", "."}
    /\ \A k \in 1..(Len(s) - 1) : ~(s[k] = "*" /\ s[k + 1] = "*")

\* The calculate tool handler without its try/catch: the evaluator's error
\* leaves the handler instead of becoming the handler's error text.
CalculateToolUncaught(expression) ==
    LET r == Eval(Sanitize(expression))
    IN  IF r.ok THEN Content("Result", r.val) ELSE Content("SyntaxError", 0)

\* The calculate tool handler.
CalculateTool(expression) ==
    LET r == Eval(Sanitize(expression))
    IN  IF r.ok
        THEN Content(IF Sanitize(expression) = << >> THEN "Result: undefined" ELSE "Result", r.val)
        ELSE Content("Error: Could not evaluate expression", 0)

\* What the calculate tool handler can return: for a string Eval is not
\* defined for, eval either returns a value (the value is not modelled) or
\* throws, and the try/catch turns the two into the two texts.
CalculateOutcomes(expression) ==
    IF EvalModelled(Sanitize(expression))
    THEN {CalculateTool(expression)}
    ELSE {Content("Result", 0), Content("Error: Could not evaluate expression", 0)}

\* The conversions table of the convert tool: the registered pairs, and the
\* converted value of an integer in ten-thousandths (Number(result).toFixed(4)).
ConversionPairs ==
    { <<"celsius", "fahrenheit">>, <<"fahrenheit", "celsius">>,
      <<"kilometers", "miles">>, <<"miles", "kilometers">>,
      <<"kilograms", "pounds">>, <<"pounds", "kilograms">> }
\* n / d rounded to the nearest integer, halves away from zero.
RoundDiv(n, d) ==
    IF n >= 0 THEN (2 * n + d) \div (2 * d) ELSE 0 - ((2 * (0 - n) + d) \div (2 * d))
Conversions(fromUnit, toUnit, value) ==
    CASE fromUnit = "celsius"    /\ toUnit = "fahrenheit" -> RoundDiv(value * 90000, 5) + 320000
      [] fromUnit = "fahrenheit" /\ toUnit = "celsius"    -> RoundDiv((value - 32) * 50000, 9)
      [] fromUnit = "kilometers" /\ toUnit = "miles"      -> RoundDiv(value * 621371, 100)
      [] fromUnit = "miles"      /\ toUnit = "kilometers" -> RoundDiv(value * 160934, 10)
      [] fromUnit = "kilograms"  /\ toUnit = "pounds"     -> RoundDiv(value * 220462, 10)
      [] fromUnit = "pounds"     /\ toUnit = "kilograms"  -> RoundDiv(value * 453592, 100)

\* The own keys of the conversions object literal.
ConversionUnits == {"celsius", "fahrenheit", "kilometers", "miles", "kilograms", "pounds"}

\* conversions[fromUnit] && conversions[fromUnit][toUnit]: the table and its
\* six inner tables are object literals, so a name that is no own key is
\* looked up on Object.prototype ("constructor": the Object function,
\* "__proto__": Object.prototype itself), and on the Object function
\* "constructor" is Function and "__proto__" is Function.prototype.
ConversionsMember(fromUnit, toUnit) ==
    IF <<fromUnit, toUnit>> \in ConversionPairs THEN "conversion"
    ELSE IF fromUnit \in ConversionUnits \cup {"__proto__"}
    THEN IF toUnit = "constructor" THEN "Object"
         ELSE IF toUnit = "__proto__" /\ fromUnit \in ConversionUnits THEN "Object.prototype"
         ELSE "undefined"
    ELSE IF fromUnit = "constructor"
    THEN IF toUnit = "constructor" THEN "Function"
         ELSE IF toUnit = "__proto__" THEN "Function.prototype"
         ELSE "undefined"
    ELSE "undefined"

\* The convert tool handler: the member found is called with the value and
\* Number(result).toFixed(4) is put in the text.  Object(value) is the value
\* again; Function(value) and Function.prototype(value) give something that
\* is no number (NaN); Object.prototype is not callable, and the TypeError
\* is caught.
ConvertTool(value, fromUnit, toUnit) ==
    LET member == ConversionsMember(fromUnit, toUnit)
    IN  CASE member = "conversion" -> Content("converted", Conversions(fromUnit, toUnit, value))
          [] member = "Object" -> Content("converted", value * 10000)
          [] member \in {"Function", "Function.prototype"} -> Content("converted: NaN", 0)
          [] member = "Object.prototype" -> Content("Error during conversion", 0)
          [] OTHER -> Content("Error: Conversion is not supported", 0)

\* The query of the nl-to-sql request with correlation id i: the clients of
\* the model number their queries as they number their requests.
Query(i) == i

\* The nl-to-sql tool handler once the awaited generateContent call has
\* settled: fulfilled (the generated SQL, followed by the query it was
\* generated from), or rejected (the catch clause).
NlToSqlTool(query, fulfilled) ==
    IF fulfilled
    THEN Content("sql", query)
    ELSE Content("Error generating SQL from natural language", 0)

\* Texts of tool results that report a failure inside the tool.
ErrorTexts ==
    { "Error: Could not evaluate expression", "Error: Conversion is not supported",
      "Error during conversion", "Error generating SQL from natural language" }

\* -------------------------------------------------------------- responses
\* A response: HTTP status, JSON-RPC error code (0 when there is none), the
\* message or kind of the body, the mcp-session-id header it carries, the
\* correlation id it answers and the tool result content.
Response(status, code, message) ==
    [status |-> status, code |-> code, message |-> message,
     session |-> "", id |-> 0, content |-> NoContent]

\* res.status(400).json({jsonrpc, error: {code: -32000, message}, id: null})
BadRequestNoSession == Response(400, -32000, "Bad Request: No valid session ID provided")
\* res.status(400).send('Invalid or missing session ID')
InvalidOrMissingSession == Response(400, 0, "Invalid or missing session ID")
\* transport.handleRequest is not a function: the async handler rejects and
\* writes no response of its own.
HandlerFault == Response(0, 0, "TypeError: transport.handleRequest is not a function")
\* No response has been written (yet).
NoResponse == Response(0, 0, "")

\* Responses the transport writes itself.
NotAcceptable == Response(406, -32000, "Not Acceptable")
ParseError == Response(400, -32700, "Parse error")
AlreadyInitialized == Response(400, -32600, "Invalid Request: Server already initialized")
NotInitialized == Response(400, -32000, "Bad Request: Server not initialized")
HeaderRequired == Response(400, -32000, "Bad Request: Mcp-Session-Id header is required")
SessionNotFound == Response(404, -32001, "Session not found")
SseOpened == Response(200, 0, "text/event-stream")
Terminated == Response(200, 0, "session terminated")
InitializeResult(sessionId, i) ==
    [Response(200, 0, "initialize result") EXCEPT !.session = sessionId, !.id = i]
ToolResult(content, i) ==
    [Response(200, 0, "tool result") EXCEPT !.content = content, !.id = i]


\* ------------------------------------------------------------------- state
VARIABLES
    transports,   \* the session store: sessionId -> transport (own properties)
    tr,           \* the transports constructed so far, by construction order
    constructed,  \* how many transports have been constructed
    issued,       \* the identifiers randomUUID() has returned so far
    last          \* the last step: the call, the branch taken, the response

vars == <<transports, tr, constructed, issued, last>>

\* A transport object: where the POST handler that constructed it stands
\* ("unborn": not yet constructed; "connecting": suspended at
\* await server.connect(transport); "connected"), the Accept flag and the
\* body of the suspended call, the SDK's _initialized and sessionId fields,
\* whether close() has run, and the correlation ids of the nl-to-sql
\* requests it still has to answer.
Unborn ==
    [phase |-> "unborn", accept |-> FALSE, body |-> NoBody, initialized |-> FALSE,
     sessionId |-> "", closed |-> FALSE, outstanding |-> {}]

\* The record of a step: the operation, the mcp-session-id header of its
\* call, whether its body is an initialization request, the router's branch,
\* the transport whose handleRequest was called (0: none) and the response
\* written.
Event(op, h, init, decision, handler, response) ==
    [op |-> op, header |-> h, init |-> init, decision |-> decision,
     handler |-> handler, response |-> response]

\* const transports = {}: the store starts empty.
Init ==
    /\ transports = << >>
    /\ tr = [t \in TransportIds |-> Unborn]
    /\ constructed = 0
    /\ issued = {}
    /\ last = Event("start", Absent, FALSE, "", 0, NoResponse)

\* The session states of the specification, read off a transport.
Initializing(T) == T.phase # "unborn" /\ ~T.initialized
Active(T) == T.initialized /\ ~T.closed
Closed(T) == T.closed

\* ---------------------------------------------------------- the session store
\* transports[sessionId] on the object literal: an own property, else a
\* member inherited from Object.prototype, else undefined.
Lookup(store, key) ==
    IF key \in DOMAIN store THEN store[key]
    ELSE IF key \in ObjectPrototypeKeys THEN InheritedMember
    ELSE Undefined
Truthy(v) == v # Undefined

\* A generator that hands out one and the same identifier every time.
randomUUIDRepeats(used) == UUID(1)

\* sessionIdGenerator: () => randomUUID().  A version-4 UUID carries 122
\* random bits: the model takes a value the generator has returned before to
\* be out of reach, and names the values in the order they are drawn.
randomUUID(used) == UUID(Cardinality(used) + 1)

\* An onsessioninitialized whose transport variable is shared by all calls
\* and still holds the transport constructed first.
onsessioninitializedShared(store, sessionId, t) ==
    [k \in DOMAIN store \cup {sessionId} |-> IF k = sessionId THEN 1 ELSE store[k]]

\* An onsessioninitialized that starts the store afresh with the new entry.
onsessioninitializedAlone(store, sessionId, t) == [k \in {sessionId} |-> t]

\* An onsessioninitialized that does not store the transport.
onsessioninitializedDropped(store, sessionId, t) == store

\* onsessioninitialized: transports[sessionId] = transport
onsessioninitialized(store, sessionId, t) ==
    [k \in DOMAIN store \cup {sessionId} |-> IF k = sessionId THEN t ELSE store[k]]

\* An onclose that empties the store.
oncloseClearsStore(store, sessionId) == << >>

\* An onclose that leaves the entry in the store.
oncloseKeepsEntry(store, sessionId) == store

\* transport.onclose: if (transport.sessionId) delete transports[transport.sessionId]
onclose(store, sessionId) ==
    IF sessionId # ""
    THEN [k \in DOMAIN store \ {sessionId} |-> store[k]]
    ELSE store

\* The branch app.post('/mcp') takes.
RouterDecision(store, h, b) ==
    IF h # Absent /\ Truthy(Lookup(store, h)) THEN "Continue"
    ELSE IF h = Absent /\ isInitializeRequest(b) THEN "Initiate"
    ELSE "Reject"

\* An else branch that answers an unknown identifier with a response of its own.
RejectResponseDistinct(h) == IF h = Absent THEN BadRequestNoSession ELSE SessionNotFound

\* The response of the else branch of app.post('/mcp').
RejectResponse(h) == BadRequestNoSession

\* The guard of handleSessionRequest: TRUE when the call is refused.
SessionRequestRefused(store, h) == h = Absent \/ ~Truthy(Lookup(store, h))

\* ------------------------------------------------------------ the transport
\* A validateSession that does not look at the _initialized flag.
validateSessionUninitialized(T, h) ==
    IF h = Absent THEN HeaderRequired
    ELSE IF h # T.sessionId THEN SessionNotFound
    ELSE NoResponse

\* A validateSession that turns a call away while a request of some other
\* transport is waiting for its external call.
validateSessionExclusive(T, h) ==
    IF \E t \in TransportIds : tr[t].sessionId # T.sessionId /\ tr[t].outstanding # {}
    THEN NotInitialized
    ELSE IF ~T.initialized THEN NotInitialized
    ELSE IF h = Absent THEN HeaderRequired
    ELSE IF h # T.sessionId THEN SessionNotFound
    ELSE NoResponse

\* validateSession of the transport: the response it writes, or NoResponse
\* when the call may proceed.
validateSession(T, h) ==
    IF ~T.initialized THEN NotInitialized
    ELSE IF h = Absent THEN HeaderRequired
    ELSE IF h # T.sessionId THEN SessionNotFound
    ELSE NoResponse

\* POST checks that let an initialization request through on a transport
\* that is already initialized.
PostRefusalReinitializes(T, h, b, acc) ==
    IF ~acc THEN NotAcceptable
    ELSE IF b \in MalformedBodies THEN ParseError
    ELSE IF isInitializeRequest(b) THEN NoResponse
    ELSE validateSession(T, h)

\* The checks of the transport's POST handling, in its order: the response
\* it writes, or NoResponse when the message is handed on.
PostRefusal(T, h, b, acc) ==
    IF ~acc THEN NotAcceptable
    ELSE IF b \in MalformedBodies THEN ParseError
    ELSE IF isInitializeRequest(b)
    THEN IF T.initialized /\ T.sessionId # "" THEN AlreadyInitialized ELSE NoResponse
    ELSE validateSession(T, h)

\* The checks of the transport's GET handling.
GetRefusal(T, h, acc) ==
    IF ~acc THEN NotAcceptable ELSE validateSession(T, h)

\* What a step yields: the program state after it, the response written,
\* the branch taken and the transport whose handleRequest was called (0: none).
Result(store, T, c, iss, response, decision, handler) ==
    [transports |-> store, tr |-> T, constructed |-> c, issued |-> iss,
     response |-> response, decision |-> decision, handler |-> handler]
\* A step that changes nothing.
Same(response, decision, handler) ==
    Result(transports, tr, constructed, issued, response, decision, handler)

\* transport.handleRequest(req, res, req.body) of a POST on transport t.
TransportPost(t, h, b, acc, decision) ==
    LET T == tr[t]
        refusal == PostRefusal(T, h, b, acc)
        connected == [tr EXCEPT ![t].phase = "connected"]
    IN
    IF refusal # NoResponse
    THEN Result(transports, connected, constructed, issued, refusal, decision, t)
    ELSE IF isInitializeRequest(b)
    THEN LET sessionId == randomUUID(issued)
         IN  Result(onsessioninitialized(transports, sessionId, t),
                    [connected EXCEPT ![t].sessionId = sessionId, ![t].initialized = TRUE],
                    constructed, issued \cup {sessionId},
                    InitializeResult(sessionId, b.id), decision, t)
    ELSE IF b.tool = "calculate"
    THEN Result(transports, connected, constructed, issued,
                ToolResult(CalculateTool(b.expression), b.id), decision, t)
    ELSE IF b.tool = "convert"
    THEN Result(transports, connected, constructed, issued,
                ToolResult(ConvertTool(b.value, b.fromUnit, b.toUnit), b.id), decision, t)
    ELSE \* nl-to-sql: the handler suspends at await model.generateContent(...)
         Result(transports, [connected EXCEPT ![t].outstanding = @ \cup {b.id}],
                constructed, issued, NoResponse, decision, t)

\* app.post('/mcp'), up to its first suspension.
PostMcpResult(h, b, acc) ==
    LET transport == Lookup(transports, h)
        decision == RouterDecision(transports, h, b)
    IN
    IF decision = "Continue"
    THEN IF transport \in TransportIds
         THEN TransportPost(transport, h, b, acc, decision)
         ELSE Same(HandlerFault, decision, 0)
    ELSE IF decision = "Initiate"
    THEN Result(transports,
                [tr EXCEPT ![constructed + 1] =
                    [Unborn EXCEPT !.phase = "connecting", !.accept = acc, !.body = b]],
                constructed + 1, issued, NoResponse, decision, 0)
    ELSE Same(RejectResponse(h), decision, 0)

\* The model constructs at most MaxTransports transports, and its clients
\* give a request a correlation id that no outstanding request of the same
\* session carries (JSON-RPC request ids are unique within a session).
PostAdmissible(h, b) ==
    /\ RouterDecision(transports, h, b) = "Initiate" => constructed < MaxTransports
    /\ h \in DOMAIN transports => b.id \notin tr[transports[h]].outstanding

\* app.post('/mcp') of an initialization call, resumed after
\* await server.connect(transport): transport.handleRequest(req, res, req.body).
PostConnectedResult(t) ==
    TransportPost(t, Absent, tr[t].body, tr[t].accept, "Initiate")

\* transport.close(): the pending responses are dropped and onclose runs.
CloseResult(t, response) ==
    Result(onclose(transports, tr[t].sessionId),
           [tr EXCEPT ![t].closed = TRUE, ![t].outstanding = {}],
           constructed, issued, response, "", t)

\* handleSessionRequest for GET /mcp and DELETE /mcp.
SessionRequestResult(method, h, acc) ==
    LET transport == Lookup(transports, h)
    IN
    IF SessionRequestRefused(transports, h)
    THEN Same(InvalidOrMissingSession, "", 0)
    ELSE IF transport \notin TransportIds
    THEN Same(HandlerFault, "", 0)
    ELSE IF method = "GET"
    THEN LET refusal == GetRefusal(tr[transport], h, acc)
         IN  Same(IF refusal # NoResponse THEN refusal ELSE SseOpened, "", transport)
    ELSE LET refusal == validateSession(tr[transport], h)
         IN  IF refusal # NoResponse
             THEN Same(refusal, "", transport)
             ELSE CloseResult(transport, Terminated)

\* A server that answers the requests of a session in the order of their
\* correlation ids, whichever handler has returned.
GenerateContentResultInOrder(t, i, fulfilled) ==
    LET first == CHOOSE j \in tr[t].outstanding : \A k \in tr[t].outstanding : j <= k
    IN  Result(transports, [tr EXCEPT ![t].outstanding = @ \ {first}], constructed, issued,
               ToolResult(NlToSqlTool(Query(i), fulfilled), first), "", t)

\* One McpServer shared by all calls: it is connected to the transport that
\* was connected last and sends every result there.
serverConnectShared(t) == constructed

\* const server = new McpServer(...); await server.connect(transport): each
\* initialization call builds a server of its own, whose tool handlers send
\* their results through the transport constructed in that same call.
serverConnect(t) == t

\* The awaited model.generateContent(promptText) of the nl-to-sql request i
\* of transport t settles (fulfilled or rejected), the tool handler returns
\* and the server writes the response to the transport it is connected to.
GenerateContentResult(t, i, fulfilled) ==
    Result(transports, [tr EXCEPT ![t].outstanding = @ \ {i}], constructed, issued,
           ToolResult(NlToSqlTool(Query(i), fulfilled), i), "", serverConnect(t))

\* The connection of the client of transport t is lost (its SSE stream
\* closes, the client is gone).  server.ts registers no listener for it and
\* starts no timer; the transport forgets the stream and does nothing else:
\* close() is not called.
ConnectionLostResult(t) == Same(NoResponse, "", t)

\* ----------------------------------------------------------------- actions
Apply(op, h, init, r) ==
    /\ transports' = r.transports
    /\ tr' = r.tr
    /\ constructed' = r.constructed
    /\ issued' = r.issued
    /\ last' = Event(op, h, init, r.decision, r.handler, r.response)

PostMcp(h, b, acc) ==
    /\ PostAdmissible(h, b)
    /\ Apply("POST", h, isInitializeRequest(b), PostMcpResult(h, b, acc))

PostConnected(t) ==
    /\ tr[t].phase = "connecting"
    /\ Apply("POST connected", Absent, TRUE, PostConnectedResult(t))

HandleSessionRequest(method, h, acc) ==
    Apply(method, h, FALSE, SessionRequestResult(method, h, acc))

GenerateContentSettles(t, i, fulfilled) ==
    /\ i \in tr[t].outstanding
    /\ Apply("generateContent", tr[t].sessionId, FALSE,
             GenerateContentResult(t, i, fulfilled))

\* The model loses the connection of a session that has no call in flight.
ConnectionLost(t) ==
    /\ Active(tr[t])
    /\ tr[t].outstanding = {}
    /\ Apply("connection lost", tr[t].sessionId, FALSE, ConnectionLostResult(t))

Next ==
    \/ \E h \in HeaderValues, b \in Bodies, acc \in BOOLEAN : PostMcp(h, b, acc)
    \/ \E t \in TransportIds : PostConnected(t)
    \/ \E m \in {"GET", "DELETE"}, h \in HeaderValues, acc \in BOOLEAN :
           HandleSessionRequest(m, h, acc)
    \/ \E t \in TransportIds, i \in CorrIds, fulfilled \in BOOLEAN :
           GenerateContentSettles(t, i, fulfilled)
    \/ \E t \in TransportIds : ConnectionLost(t)

Spec == Init /\ [][Next]_vars

\* ------------------------------------------------- the tools on their own
\* Characters of the expressions handed to the calculate tool on its own:
\* characters the replace keeps and characters it removes.
Characters == {"2", "0", "+", "-", "*", "/", ".", "(", ")", "a", " ", ";"}
ExpressionInputs == UNION { [1..n -> Characters] : n \in 0..MaxLen }

\* Unit names and values handed to the convert tool on its own.
UnitNames == ConversionUnits \cup {"constructor", "__proto__", "furlongs"}
ConvertValues == {-40, 0, 100}

\* A tool call that has arrived, and a tool call that has been answered.
CalculateCall(expression) == [op |-> "call calculate", expression |-> expression]
CalculateAnswer(expression, evaluated, content) ==
    [op |-> "calculate", expression |-> expression, evaluated |-> evaluated, content |-> content]
ConvertCall(value, fromUnit, toUnit) ==
    [op |-> "call convert", value |-> value, fromUnit |-> fromUnit, toUnit |-> toUnit]
ConvertAnswer(value, fromUnit, toUnit, content) ==
    [op |-> "convert", value |-> value, fromUnit |-> fromUnit, toUnit |-> toUnit,
     content |-> content]

\* process.env.GEMINI_API_KEY || '': the key is missing, or set.
ApiKeys == {"", "key"}
\* What a rejected model.generateContent(promptText) throws: the error of a
\* refused request, the error of a failed fetch, an error without message.
NoError == [name |-> "", message |-> ""]
Errors ==
    { [name |-> "GoogleGenerativeAIFetchError", message |-> "API key not valid"],
      [name |-> "TypeError", message |-> "fetch failed"],
      [name |-> "Error", message |-> ""] }
\* How the awaited call can settle: without a key the service refuses the
\* request, with a key it may also answer.
Settled(fulfilled, error) == [fulfilled |-> fulfilled, error |-> error]
GenerateContentOutcomes(apiKey) ==
    {Settled(FALSE, e) : e \in Errors} \cup (IF apiKey = "" THEN {} ELSE {Settled(TRUE, NoError)})
\* ${error.message || error}
ErrorMessage(error) == IF error.message # "" THEN error.message ELSE error.name

NlToSqlCall(query, apiKey) == [op |-> "call nl-to-sql", query |-> query, apiKey |-> apiKey]
NlToSqlAwaiting(query, apiKey, attempts) ==
    [op |-> "await generateContent", query |-> query, apiKey |-> apiKey, attempts |-> attempts]
NlToSqlAnswer(call, outcome) ==
    [op |-> "nl-to-sql", query |-> call.query, apiKey |-> call.apiKey,
     attempts |-> call.attempts, error |-> outcome.error,
     content |-> NlToSqlTool(call.query, outcome.fulfilled),
     message |-> IF outcome.fulfilled THEN "" ELSE ErrorMessage(outcome.error)]

\* A catch clause that calls generateContent again.
NlToSqlSettledRetries(call, outcome) ==
    IF outcome.fulfilled
    THEN NlToSqlAnswer(call, outcome)
    ELSE NlToSqlAwaiting(call.query, call.apiKey, call.attempts + 1)

\* The nl-to-sql handler after its await: it returns the SQL, or the catch
\* clause returns the error text; neither calls generateContent again.
NlToSqlSettled(call, outcome) == NlToSqlAnswer(call, outcome)

ToolInit ==
    /\ transports = << >>
    /\ tr = [t \in TransportIds |-> Unborn]
    /\ constructed = 0
    /\ issued = {}
    /\ last \in {CalculateCall(e) : e \in ExpressionInputs}
                \cup {ConvertCall(v, f, u) : v \in ConvertValues, f \in UnitNames, u \in UnitNames}
                \cup {NlToSqlCall(Query(i), k) : i \in CorrIds, k \in ApiKeys}

\* The calculate tool handler runs on the call.
Calculate ==
    /\ last.op = "call calculate"
    /\ \E content \in CalculateOutcomes(last.expression) :
          last' = CalculateAnswer(last.expression, Sanitize(last.expression), content)
    /\ UNCHANGED <<transports, tr, constructed, issued>>

\* The convert tool handler runs on the call.
Convert ==
    /\ last.op = "call convert"
    /\ last' = ConvertAnswer(last.value, last.fromUnit, last.toUnit,
                             ConvertTool(last.value, last.fromUnit, last.toUnit))
    /\ UNCHANGED <<transports, tr, constructed, issued>>

\* The nl-to-sql tool handler runs up to await model.generateContent(promptText).
GenerateContent ==
    /\ last.op = "call nl-to-sql"
    /\ last' = NlToSqlAwaiting(last.query, last.apiKey, 1)
    /\ UNCHANGED <<transports, tr, constructed, issued>>

\* The awaited call settles and the handler returns.
NlToSqlSettles ==
    /\ last.op = "await generateContent"
    /\ \E outcome \in GenerateContentOutcomes(last.apiKey) :
          last' = NlToSqlSettled(last, outcome)
    /\ UNCHANGED <<transports, tr, constructed, issued>>

ToolNext ==
    \/ Calculate
    \/ Convert
    \/ GenerateContent
    \/ NlToSqlSettles

ToolSpec == ToolInit /\ [][ToolNext]_vars

\* ------------------------------------------------------ schemas at startup
\* The files the schemas directory may hold, in the order readdir lists
\* them; a directory is a part of that list, or is missing.
File(table, ext) == [table |-> table, ext |-> ext]
SchemaFiles == << File("departments", ".sql"), File("employees", ".sql"), File("notes", ".txt") >>
RECURSIVE SubSeqs(_)
SubSeqs(q) ==
    IF q = << >> THEN { << >> }
    ELSE LET rest == SubSeqs(Tail(q))
         IN  rest \cup { <<Head(q)>> \o r : r \in rest }
Missing == << File("", "ENOENT") >>
Directories == SubSeqs(SchemaFiles) \cup {Missing}

\* file.endsWith('.sql')
IsSql(file) == file.ext = ".sql"

\* The process after the module has been evaluated: loadDatabaseSchemas()
\* is suspended at an await (phase "readdir", then "readFile" with the files
\* still to visit and the local schemas object), has resolved ("loaded") or
\* has rejected ("rejected"); databaseSchemas is the shared table (its table
\* names); app.listen has been called; prompt is the prompt of the last
\* nl-to-sql invocation.
NoPrompt == [query |-> 0, tables |-> {}]
Startup(op, dir, phase, files, schemas, databaseSchemas, prompt) ==
    [op |-> op, dir |-> dir, phase |-> phase, files |-> files, schemas |-> schemas,
     databaseSchemas |-> databaseSchemas, prompt |-> prompt]

\* app.listen(3000) is called when the module is evaluated, whatever the
\* state of the load: calls are handled from then on.
Listening(s) == TRUE

\* The for loop of loadDatabaseSchemas from the file list on: files that do
\* not end in .sql are skipped; at a .sql file the function suspends at await
\* fs.readFile; at the end of the list it returns, and the then callback
\* assigns databaseSchemas before any other handler runs.
RECURSIVE LoadLoop(_, _, _)
LoadLoop(s, files, schemas) ==
    IF files = << >>
    THEN [s EXCEPT !.op = "then", !.phase = "loaded", !.files = << >>,
                   !.schemas = schemas, !.databaseSchemas = schemas]
    ELSE IF IsSql(Head(files))
    THEN [s EXCEPT !.op = "readFile", !.phase = "readFile", !.files = files, !.schemas = schemas]
    ELSE LoadLoop(s, Tail(files), schemas)

\* The catch callback: the error is logged, databaseSchemas is left alone.
LoadRejected(s) == [s EXCEPT !.op = "catch", !.phase = "rejected"]

StartupInit ==
    /\ transports = << >>
    /\ tr = [t \in TransportIds |-> Unborn]
    /\ constructed = 0
    /\ issued = {}
    /\ last \in {Startup("listen", d, "readdir", d, {}, {}, NoPrompt) : d \in Directories}

\* await fs.readdir(schemasDir) settles.
ReadDirSettles ==
    /\ last.phase = "readdir"
    /\ last' = IF last.dir = Missing THEN LoadRejected(last) ELSE LoadLoop(last, last.files, {})
    /\ UNCHANGED <<transports, tr, constructed, issued>>

\* await fs.readFile(filePath, 'utf-8') settles.
ReadFileSettles(fulfilled) ==
    /\ last.phase = "readFile"
    /\ last' = IF fulfilled
               THEN LoadLoop(last, Tail(last.files), last.schemas \cup {Head(last.files).table})
               ELSE LoadRejected(last)
    /\ UNCHANGED <<transports, tr, constructed, issued>>

\* An nl-to-sql invocation builds its prompt from databaseSchemas
\* (Object.entries(databaseSchemas).forEach ...) and the query.
BuildPrompt(i) ==
    /\ Listening(last)
    /\ last' = [last EXCEPT !.op = "prompt",
                            !.prompt = [query |-> Query(i), tables |-> last.databaseSchemas]]
    /\ UNCHANGED <<transports, tr, constructed, issued>>

StartupNext ==
    \/ ReadDirSettles
    \/ \E fulfilled \in BOOLEAN : ReadFileSettles(fulfilled)
    \/ \E i \in CorrIds : BuildPrompt(i)

StartupSpec == StartupInit /\ [][StartupNext]_vars

\* ------------------------------------------------------------------ typing
TypeOK ==
    /\ DOMAIN transports \subseteq UUIDSpace
    /\ \A k \in DOMAIN transports : transports[k] \in TransportIds
    /\ constructed \in 0..MaxTransports
    /\ issued \subseteq UUIDSpace
    /\ \A t \in TransportIds : tr[t].outstanding \subseteq CorrIds

\* ------------------------------------------------------------------ claims

\* The entries a step adds to the store.
NewSessions == DOMAIN transports' \ DOMAIN transports

\* C1, as claimed: every POST /mcp call without a session identifier whose
\* body is an initialization request, once handled, has added exactly one
\* session to the store, under an identifier never issued before.
C1_EveryInitializationCreatesASession ==
    [][ last'.op = "POST connected" =>
          /\ Cardinality(NewSessions) = 1
          /\ NewSessions \cap issued = {}
          /\ \A k \in DOMAIN transports : k \in DOMAIN transports' /\ transports'[k] = transports[k]
      ]_vars

\* C1, amended: every POST /mcp call without a session identifier whose body
\* is an initialization request and whose Accept header the transport accepts
\* adds exactly one session to the store, bound to the transport constructed
\* for the call, under an identifier that differs from every identifier
\* issued before (those of closed sessions included); the other entries stay.
C1_AcceptedInitializationCreatesOneFreshSession ==
    [][ (last'.op = "POST connected" /\ tr[last'.handler].accept) =>
          /\ Cardinality(NewSessions) = 1
          /\ NewSessions \cap issued = {}
          /\ NewSessions = {last'.response.session}
          /\ transports'[last'.response.session] = last'.handler
          /\ \A k \in DOMAIN transports : k \in DOMAIN transports' /\ transports'[k] = transports[k]
      ]_vars

\* An initialization call has just created a session while the identifier of
\* an earlier, closed session is on record.
C1_Witness ==
    /\ last.op = "POST connected"
    /\ last.response.session \in DOMAIN transports
    /\ \E t \in TransportIds : Closed(tr[t]) /\ tr[t].sessionId # last.response.session

\* C2, as claimed: a POST /mcp call whose session identifier is not in the
\* store is answered with the -32000 'Bad Request: No valid session ID
\* provided' envelope, reaches no handler, creates no session and leaves the
\* store unchanged, whatever its body.
C2_UnknownIdentifierIsRejected ==
    [][ (last'.op = "POST" /\ last'.header # Absent /\ last'.header \notin DOMAIN transports) =>
          /\ last'.response = BadRequestNoSession
          /\ last'.handler = 0
          /\ constructed' = constructed
          /\ transports' = transports
      ]_vars

\* The decision the specification assigns to a call.
SpecifiedDecision(store, h, init) ==
    IF h # Absent /\ h \in DOMAIN store THEN "Continue"
    ELSE IF h = Absent /\ init THEN "Initiate"
    ELSE "Reject"

\* C3, as claimed: the router's decision on a POST /mcp call is Continue iff
\* the identifier is present and in the store, Initiate iff it is absent and
\* the body is an initialization request, and Reject in every other case.
C3_DecisionFollowsTheTable ==
    [][ last'.op = "POST" =>
          last'.decision = SpecifiedDecision(transports, last'.header, last'.init) ]_vars

\* C4: a POST /mcp call that carries the identifier of a session in the store
\* is handed to the handler stored under that identifier, which is Active
\* before and after the call; no handler is constructed, no identifier is
\* issued, no initialization result is produced and the store is unchanged.
C4_ContinueReusesTheStoredHandler ==
    [][ (last'.op = "POST" /\ last'.header \in DOMAIN transports) =>
          LET t == transports[last'.header]
          IN  /\ last'.decision = "Continue"
              /\ last'.handler = t
              /\ Active(tr[t]) /\ Active(tr'[t])
              /\ tr'[t].sessionId = tr[t].sessionId
              /\ last'.response.message # "initialize result"
              /\ constructed' = constructed
              /\ issued' = issued
              /\ transports' = transports
      ]_vars

\* An initialization request has just been sent on an existing session.
C4_Witness ==
    /\ last.op = "POST"
    /\ last.init
    /\ last.header \in DOMAIN transports
    /\ last.handler = transports[last.header]

\* C5: a DELETE /mcp call for a session in the store removes its identifier
\* from the store, and every later POST, GET or DELETE call that carries the
\* identifier of a closed session is refused as an unknown session without
\* reaching any handler.
C5_ClosedSessionIsUnknown ==
    [][ /\ (last'.op = "DELETE" /\ last'.header \in DOMAIN transports) =>
              /\ last'.header \notin DOMAIN transports'
              /\ Closed(tr'[transports[last'.header]])
        /\ \A t \in TransportIds :
              (Closed(tr[t]) /\ last'.header = tr[t].sessionId
                  /\ last'.op \in {"POST", "GET", "DELETE"}) =>
                 /\ last'.handler = 0
                 /\ last'.response = IF last'.op = "POST" THEN BadRequestNoSession
                                     ELSE InvalidOrMissingSession
                 /\ tr[t].sessionId \notin DOMAIN transports'
      ]_vars

\* A POST call carrying the identifier of a closed session has just been refused.
C5_Witness ==
    /\ last.op = "POST"
    /\ last.response = BadRequestNoSession
    /\ \E t \in TransportIds : Closed(tr[t]) /\ last.header = tr[t].sessionId

\* C6, as claimed: a GET or DELETE /mcp call whose session identifier is
\* absent or not in the store is answered 400 'Invalid or missing session
\* ID', reaches no handler and changes nothing.
C6_SessionRequestWithoutSessionIsRefused ==
    [][ (last'.op \in {"GET", "DELETE"}
            /\ (last'.header = Absent \/ last'.header \notin DOMAIN transports)) =>
          /\ last'.response = InvalidOrMissingSession
          /\ last'.handler = 0
          /\ transports' = transports
          /\ tr' = tr
      ]_vars

\* C7, as claimed: a DELETE /mcp call for the identifier of a closed session
\* gets the response of a DELETE /mcp call for an identifier that was never
\* issued, both 'Invalid or missing session ID', and neither changes the
\* store or any session.
C7_TerminationIsIdempotent ==
    \A t \in TransportIds : \A h \in HeaderValues \ ({Absent} \cup issued) :
        Closed(tr[t]) =>
            LET closed == SessionRequestResult("DELETE", tr[t].sessionId, TRUE)
                never == SessionRequestResult("DELETE", h, TRUE)
            IN  /\ closed.response = never.response
                /\ closed.response = InvalidOrMissingSession
                /\ closed.transports = transports /\ never.transports = transports
                /\ closed.tr = tr /\ never.tr = tr

\* C8: no identifier is claimed by two handlers that are Active at the same
\* time, whatever calls are in flight.
C8_OneHandlerPerIdentifier ==
    \A k \in UUIDSpace :
        Cardinality({t \in TransportIds : Active(tr[t]) /\ tr[t].sessionId = k}) <= 1

\* Two sessions are Active together, the second one just initialized.
C8_Witness ==
    /\ last.op = "POST connected"
    /\ \E t1, t2 \in TransportIds :
          t1 # t2 /\ Active(tr[t1]) /\ Active(tr[t2]) /\ tr[t1].sessionId # tr[t2].sessionId

\* C9, as claimed: the response to a POST /mcp call whose identifier is not
\* in the store differs from the response to a POST /mcp call refused for
\* carrying no identifier and a body that is no initialization request.
C9_LookupFailureIsDistinguishable ==
    \A h \in HeaderValues \ ({Absent} \cup DOMAIN transports) :
        \A b1, b2 \in Bodies :
            ~isInitializeRequest(b2) =>
                PostMcpResult(h, b1, TRUE).response # PostMcpResult(Absent, b2, TRUE).response

\* The responses to the POST /mcp calls the router rejects: those carrying an
\* identifier (a failed lookup), and those carrying none.
RejectedCalls ==
    { c \in HeaderValues \X Bodies : RouterDecision(transports, c[1], c[2]) = "Reject" }
LookupFailureResponses ==
    { PostMcpResult(c[1], c[2], TRUE).response : c \in { x \in RejectedCalls : x[1] # Absent } }
RoutingFailureResponses ==
    { PostMcpResult(c[1], c[2], TRUE).response : c \in { x \in RejectedCalls : x[1] = Absent } }

\* C9, amended: a POST /mcp call the router rejects because its identifier is
\* not found gets exactly the response of a POST /mcp call rejected for
\* carrying no identifier and a body that is no initialization request:
\* status 400, error code -32000, one and the same message.
C9_RejectionsAreIdentical ==
    /\ LookupFailureResponses # {}
    /\ LookupFailureResponses = RoutingFailureResponses
    /\ Cardinality(LookupFailureResponses) = 1
    /\ \A r \in LookupFailureResponses : r.status = 400 /\ r.code = -32000

\* A POST call carrying an unknown identifier has just been rejected while a
\* session is in the store.
C9_Witness ==
    /\ last.op = "POST"
    /\ last.decision = "Reject"
    /\ last.header \in OtherStrings
    /\ DOMAIN transports # {}

\* The tool calls of the model that fail inside the tool.
ToolFails(b) ==
    \/ b.tool = "calculate" /\ ~Eval(Sanitize(b.expression)).ok
    \/ b.tool = "convert" /\ <<b.fromUnit, b.toUnit>> \notin ConversionPairs

\* C10, as claimed: a tool call that fails inside the tool (unparseable
\* expression, conversion pair that is not one of the registered six,
\* rejected generateContent call) is answered
\* with status 200 and an error text as content; the session stays Active
\* with its store entry, the other outstanding requests stay outstanding,
\* and the state later requests meet is the one a succeeding call leaves.
C10_ToolFailureStaysInsideTheCall ==
    /\ \A h \in DOMAIN transports : \A b \in CalculateBodies \cup ConvertBodies :
          ToolFails(b) =>
             LET r == PostMcpResult(h, b, TRUE)
             IN  /\ r.response.status = 200 /\ r.response.code = 0
                 /\ r.response.id = b.id
                 /\ r.response.content.kind \in ErrorTexts
                 /\ r.transports = transports
                 /\ r.tr = tr
                 /\ Active(r.tr[transports[h]])
    /\ \A t \in TransportIds : \A i \in tr[t].outstanding :
          LET r == GenerateContentResult(t, i, FALSE)
          IN  /\ r.response.status = 200 /\ r.response.code = 0
              /\ r.response.id = i
              /\ r.response.content.kind \in ErrorTexts
              /\ r.transports = transports
              /\ tr[t].sessionId \in DOMAIN r.transports
              /\ Active(r.tr[t])
              /\ r.tr[t].outstanding = tr[t].outstanding \ {i}
              /\ \A u \in TransportIds \ {t} : r.tr[u] = tr[u]
              /\ r.tr = GenerateContentResult(t, i, TRUE).tr

\* A generateContent call has just failed on a session that has another
\* request outstanding.
C10_Witness ==
    /\ last.op = "generateContent"
    /\ last.response.content.kind \in ErrorTexts
    /\ tr[last.handler].outstanding # {}
    /\ Active(tr[last.handler])

\* C11: every tool result is delivered on the session its request was sent
\* on: a result written in a POST /mcp call goes to the handler stored under
\* the call's identifier, a result written when generateContent settles goes
\* to the handler of the session that sent the request, carries a
\* correlation id that session had outstanding, and no step that delivers a
\* result touches the handler or the outstanding requests of another session.
C11_ResultsStayOnTheirSession ==
    [][ last'.response.message = "tool result" =>
          LET t == last'.handler
          IN  /\ t \in TransportIds
              /\ last'.header = tr[t].sessionId
              /\ last'.header \in DOMAIN transports /\ transports[last'.header] = t
              /\ last'.op = "generateContent" => last'.response.id \in tr[t].outstanding
              /\ \A u \in TransportIds \ {t} : tr'[u] = tr[u]
      ]_vars

\* A result has just been delivered on one session while another Active
\* session has a request with the same correlation id outstanding.
C11_Witness ==
    /\ last.op = "generateContent"
    /\ \E u \in TransportIds \ {last.handler} :
          Active(tr[u]) /\ last.response.id \in tr[u].outstanding

\* C12: requests outstanding together on one Active session are answered
\* one by one, in whatever order generateContent settles: a response answers
\* a request that is outstanding, carries that request's correlation id and
\* the result of that request's query, and takes that request alone off the
\* outstanding ones; an outstanding request stays outstanding until its own
\* response is written or the session is closed.
C12_EachRequestGetsItsOwnResponse ==
    [][ /\ last'.op = "generateContent" =>
              LET t == last'.handler
                  i == last'.response.id
              IN  /\ i \in tr[t].outstanding
                  /\ tr'[t].outstanding = tr[t].outstanding \ {i}
                  /\ last'.response.status = 200
                  /\ last'.response.content \in {NlToSqlTool(Query(i), f) : f \in BOOLEAN}
        /\ \A t \in TransportIds : \A i \in tr[t].outstanding \ tr'[t].outstanding :
              \/ Closed(tr'[t])
              \/ /\ last'.op = "generateContent"
                 /\ last'.handler = t
                 /\ last'.response.id = i
      ]_vars

\* The request with the higher correlation id has just been answered with
\* its SQL while the other request of the session is still outstanding.
C12_Witness ==
    /\ last.op = "generateContent"
    /\ last.response.id = 2
    /\ last.response.content.kind = "sql"
    /\ Active(tr[last.handler])
    /\ tr[last.handler].outstanding = {1}

\* C13: while a request of one session is suspended at its generateContent
\* call, the calls of every other session are routed and completed in the
\* state as it is: a tool call of another Active session gets its result or
\* is taken up, its DELETE terminates it, a suspended initialization call of
\* another handler completes and a new initialization call is routed; none
\* of them touches the suspended request.
C13_OtherSessionsAreServedWhileOneAwaits ==
    \A t \in TransportIds :
        tr[t].outstanding # {} =>
           /\ \A u \in TransportIds \ {t} :
                 Active(tr[u]) =>
                    LET h == tr[u].sessionId
                        del == SessionRequestResult("DELETE", h, TRUE)
                    IN  /\ \A b \in CalculateBodies \cup ConvertBodies :
                              LET r == PostMcpResult(h, b, TRUE)
                              IN  /\ r.handler = u
                                  /\ r.response.message = "tool result"
                                  /\ r.response.id = b.id
                                  /\ r.tr[t] = tr[t]
                        /\ \A b \in NlToSqlBodies :
                              LET r == PostMcpResult(h, b, TRUE)
                              IN  /\ r.handler = u
                                  /\ r.tr[u].outstanding = tr[u].outstanding \cup {b.id}
                                  /\ r.tr[t] = tr[t]
                        /\ del.response = Terminated
                        /\ Closed(del.tr[u])
                        /\ h \notin DOMAIN del.transports
                        /\ del.tr[t] = tr[t]
           /\ \A u \in TransportIds \ {t} :
                 (tr[u].phase = "connecting" /\ tr[u].accept) =>
                    LET r == PostConnectedResult(u)
                    IN  /\ r.response.message = "initialize result"
                        /\ Active(r.tr[u])
                        /\ r.tr[t] = tr[t]
           /\ constructed < MaxTransports =>
                 \A b \in InitializeBodies :
                     LET r == PostMcpResult(Absent, b, TRUE)
                     IN  /\ r.decision = "Initiate"
                         /\ r.constructed = constructed + 1
                         /\ r.tr[t] = tr[t]

\* A tool call of one session has just been answered while a request of
\* another Active session is waiting for generateContent.
C13_Witness ==
    /\ last.op = "POST"
    /\ last.response.message = "tool result"
    /\ \E t \in TransportIds \ {last.handler} : Active(tr[t]) /\ tr[t].outstanding # {}

\* The characters the calculate tool is said to keep.
ClaimedChars == {"-", "(", ")", "*", "+", "/", "."} \cup Digits
\* The positions of an expression that hold such a character, and the k-th
\* of them.
KeptPositions(e) == {k \in 1..Len(e) : e[k] \in ClaimedChars}
KeptPosition(e, j) ==
    CHOOSE k \in KeptPositions(e) : Cardinality({m \in KeptPositions(e) : m <= k}) = j

\* C14: for every expression, the string the calculate tool hands to eval
\* holds only characters of { - ( ) * + / 0-9 . } and is the expression with
\* exactly the other characters removed (the kept ones in their order), and
\* the tool answers 'Result: ...', with the value of that string, or
\* 'Error: Could not evaluate expression'.
C14_CalculateEvaluatesTheSanitizedExpression ==
    last.op = "calculate" =>
        LET e == last.expression
            s == last.evaluated
        IN  /\ \A k \in 1..Len(s) : s[k] \in ClaimedChars
            /\ Len(s) = Cardinality(KeptPositions(e))
            /\ \A j \in 1..Len(s) : s[j] = e[KeptPosition(e, j)]
            /\ last.content.kind \in
                  {"Result", "Result: undefined", "Error: Could not evaluate expression"}
            /\ (EvalModelled(s) /\ last.content.kind = "Result") =>
                  Eval(s).ok /\ last.content.value = Eval(s).val
            /\ (EvalModelled(s) /\ last.content.kind # "Result") =>
                  (s = << >> \/ ~Eval(s).ok)

\* An expression with a removed character between two kept ones has been
\* evaluated to a result.
C14_Witness ==
    /\ last.op = "calculate"
    /\ Len(last.expression) = 3
    /\ last.expression[2] \notin ClaimedChars
    /\ Len(last.evaluated) = 2
    /\ last.content.kind = "Result"
    /\ last.content.value = 22

\* The six pairs the convert tool is said to serve.
ClaimedPairs ==
    { <<"celsius", "fahrenheit">>, <<"fahrenheit", "celsius">>,
      <<"kilometers", "miles">>, <<"miles", "kilometers">>,
      <<"kilograms", "pounds">>, <<"pounds", "kilograms">> }

\* C15, as claimed: the convert tool answers with a converted value exactly
\* when <<fromUnit, toUnit>> is one of the six registered pairs, and with
\* the 'Conversion from ... to ... is not supported' text for every other
\* pair of unit strings.
C15_ConvertServesExactlyTheRegisteredPairs ==
    last.op = "convert" =>
        IF <<last.fromUnit, last.toUnit>> \in ClaimedPairs
        THEN /\ last.content.kind = "converted"
             /\ last.content.value = Conversions(last.fromUnit, last.toUnit, last.value)
        ELSE last.content.kind = "Error: Conversion is not supported"

\* C16, as claimed: storing a handler under an identifier that is already in
\* the store leaves the binding that was there (the step detects the
\* conflict and does not overwrite).
C16_CreateDetectsConflict ==
    \A k \in DOMAIN transports : \A t \in TransportIds :
        onsessioninitialized(transports, k, t) = transports

\* C17: a handler that enters Closed takes its own identifier, and nothing
\* else, out of the store; closing it once more changes neither the store
\* nor any handler, whatever sessions have been created since.
C17_CloseRemovesOwnEntryOnce ==
    \A t \in TransportIds :
        LET sessionId == tr[t].sessionId
            first == CloseResult(t, Terminated)
        IN  /\ Active(tr[t]) =>
                  /\ sessionId \in DOMAIN transports
                  /\ DOMAIN first.transports = DOMAIN transports \ {sessionId}
                  /\ \A k \in DOMAIN first.transports : first.transports[k] = transports[k]
                  /\ Closed(first.tr[t])
                  /\ onclose(first.transports, sessionId) = first.transports
            /\ Closed(tr[t]) =>
                  /\ sessionId \notin DOMAIN transports
                  /\ first.transports = transports
                  /\ first.tr = tr

\* A handler has been closed and the session of another handler, created
\* after that, is in the store.
C17_Witness ==
    \E t, u \in TransportIds :
        /\ t < u
        /\ Closed(tr[t])
        /\ Active(tr[u])
        /\ tr[u].sessionId \in DOMAIN transports

\* C18: a handler in Initializing takes the initialization request alone:
\* any other well-formed message handed to it is answered 'Server not
\* initialized' and leaves it as it is; and every tool call that is
\* processed (answered, or taken up) is processed by a handler whose
\* initialization had completed.
C18_InitializationComesFirst ==
    /\ [](\A t \in TransportIds : \A h \in HeaderValues :
             \A b \in CalculateBodies \cup ConvertBodies \cup NlToSqlBodies :
                 Initializing(tr[t]) =>
                    LET r == TransportPost(t, h, b, TRUE, "Continue")
                    IN  /\ r.response = NotInitialized
                        /\ r.transports = transports
                        /\ ~r.tr[t].initialized
                        /\ r.tr[t].outstanding = {})
    /\ [][ (\/ last'.response.message = "tool result"
            \/ \E t \in TransportIds : ~(tr'[t].outstanding \subseteq tr[t].outstanding)) =>
              /\ last'.handler \in TransportIds
              /\ tr[last'.handler].initialized
              /\ \A t \in TransportIds \ {last'.handler} :
                    tr'[t].outstanding \subseteq tr[t].outstanding
         ]_vars

\* A tool call has just been taken up on an Active session while another
\* handler, whose initialization call was refused, is still in Initializing.
C18_Witness ==
    /\ last.op = "POST"
    /\ last.handler \in TransportIds
    /\ tr[last.handler].outstanding # {}
    /\ \E t \in TransportIds : Initializing(tr[t]) /\ tr[t].phase = "connected"

\* C19, as claimed: when the connection of an Active session is lost, the
\* session is Closed and its identifier is out of the store.
C19_ConnectionLossClosesTheSession ==
    [][ last'.op = "connection lost" =>
          /\ Closed(tr'[last'.handler])
          /\ last'.header \notin DOMAIN transports'
      ]_vars

\* C20: an invocation of the nl-to-sql tool calls generateContent at most
\* once; when the call is rejected, and it always is when no API key is
\* set, the invocation is over and its result is the 'Error generating SQL
\* from natural language' text followed by the message of the error thrown.
C20_NlToSqlTriesOnceAndReportsTheFailure ==
    /\ last.op \in {"await generateContent", "nl-to-sql"} => last.attempts <= 1
    /\ last.op = "nl-to-sql" =>
          /\ last.apiKey = "" => last.error \in Errors
          /\ last.error \in Errors =>
                /\ last.content.kind = "Error generating SQL from natural language"
                /\ last.message # ""
                /\ last.error.message # "" => last.message = last.error.message
          /\ last.error \notin Errors => last.content = Content("sql", last.query)

\* Without an API key the one call has been rejected and the invocation has
\* returned the error text with the message of the service.
C20_Witness ==
    /\ last.op = "nl-to-sql"
    /\ last.apiKey = ""
    /\ last.attempts = 1
    /\ last.content.kind = "Error generating SQL from natural language"
    /\ last.message = "API key not valid"

\* The tables of the .sql files of a directory.
TablesOf(dir) == {dir[k].table : k \in {j \in 1..Len(dir) : dir[j].ext = ".sql"}}

\* C21, as claimed: every nl-to-sql invocation builds its prompt when the
\* schemas have been loaded, from the tables of the schemas directory.
C21_SchemasAreLoadedBeforeAnyPrompt ==
    last.op = "prompt" =>
        /\ last.phase = "loaded"
        /\ last.prompt.tables = TablesOf(last.dir)

\* C22: whatever a step is (a rejected call, a tool call that fails or
\* succeeds, an initialization, a termination, a lost connection), every
\* store entry it finds is afterwards the same entry, except the entry of
\* the session the step itself closes; and the only entry a step adds is
\* that of the handler whose initialization it completes.
C22_StoreEntriesAreIndependent ==
    [][ /\ \A k \in DOMAIN transports :
              IF k \in DOMAIN transports'
              THEN transports'[k] = transports[k]
              ELSE /\ last'.op = "DELETE"
                   /\ last'.header = k
                   /\ last'.handler = transports[k]
                   /\ Closed(tr'[transports[k]])
        /\ \A k \in NewSessions :
              /\ last'.op = "POST connected"
              /\ transports'[k] = last'.handler
              /\ NewSessions = {k}
      ]_vars

\* A session has just been terminated, or a tool call has just failed, while
\* the session of another handler is in the store.
C22_Witness ==
    /\ last.handler \in TransportIds
    /\ \/ last.op = "DELETE" /\ last.response = Terminated
       \/ last.response.content.kind \in ErrorTexts
    /\ \E k \in DOMAIN transports : transports[k] # last.handler

\* C23, as claimed: a POST, GET or DELETE /mcp call whose header value is not
\* an identifier in the store, whatever string it is, is not dispatched: the
\* POST handler does not take the reuse branch, the GET/DELETE handler
\* answers 400, and handleRequest is called on nothing.
C23_OnlyStoredIdentifiersAreKnown ==
    [][ (last'.op \in {"POST", "GET", "DELETE"} /\ last'.header \notin DOMAIN transports) =>
          /\ last'.op = "POST" => last'.decision # "Continue"
          /\ last'.op \in {"GET", "DELETE"} => last'.response.status = 400
          /\ last'.response # HandlerFault
          /\ last'.handler = 0
      ]_vars

\* C24: every entry of the store maps its identifier to a handler that
\* carries that identifier, has processed its initialization and is not
\* closed; a handler that has been constructed and has not processed its
\* initialization (its call is suspended, or was refused) has no entry.
C24_StoreEntriesNameInitializedHandlers ==
    /\ \A k \in DOMAIN transports :
          LET T == tr[transports[k]]
          IN  /\ T.sessionId = k
              /\ T.initialized
              /\ T.phase = "connected"
              /\ ~T.closed
    /\ \A t \in TransportIds :
          Initializing(tr[t]) =>
             /\ tr[t].sessionId = ""
             /\ \A k \in DOMAIN transports : transports[k] # t

\* Two sessions are in the store, or one is while the initialization call
\* of another handler has been refused.
C24_Witness ==
    /\ DOMAIN transports # {}
    /\ \/ Cardinality(DOMAIN transports) = 2
       \/ \E t \in TransportIds : Initializing(tr[t]) /\ tr[t].phase = "connected"

====
